---- MODULE Spec2Model ----
(***************************************************************************)
(* Model of digest/src/mac.rs: the Mac convenience trait, its blanket      *)
(* implementation (update / finalize / finalize_reset / reset / verify /   *)
(* verify_slice / verify_truncated_left / verify_truncated_right) and the  *)
(* CtOutput constant-time output wrapper.                                  *)
(*                                                                         *)
(* The concrete MAC algorithm (KeyInit, Update, FixedOutput, Reset,        *)
(* FixedOutputReset) and subtle's ConstantTimeEq are collaborators that    *)
(* mac.rs only calls; they are modelled here by a small keyed accumulator  *)
(* and by the and-accumulate loop over all byte positions.                 *)
(***************************************************************************)
EXTENDS Integers, Sequences, FiniteSets, TLC

\* ---------------------------------------------------------------- bounds
\* Self::OutputSize::USIZE of the modelled algorithm (tag length in bytes).
OutputSize == 3
\* Largest number of update calls between two (re)initialisations.
MaxUpdates == 2

\* Width of u8, the element type of keys, messages and tags.
U8Bits == 8

U8Mod == 2 ^ U8Bits

\* Keys handed to Mac::new, data slices handed to update (the empty slice
\* among them), and the bytes used to build candidate tags that are
\* unrelated to the true tag.
Keys == { <<0, 0>>, <<107, 255>> }
Chunks == { <<>>, <<104>>, <<101, 0>> }
SampleBytes == { 0, 255 }

\* ------------------------------------------------------------ u8 bit ops
RECURSIVE bitxor(_, _, _)
bitxor(a, b, w) ==
    IF w = 0 THEN 0
    ELSE (((a % 2) + (b % 2)) % 2) + 2 * bitxor(a \div 2, b \div 2, w - 1)

RECURSIVE bitor(_, _, _)
bitor(a, b, w) ==
    IF w = 0 THEN 0
    ELSE (IF (a % 2) = 1 \/ (b % 2) = 1 THEN 1 ELSE 0)
         + 2 * bitor(a \div 2, b \div 2, w - 1)

RECURSIVE bitand(_, _, _)
bitand(a, b, w) ==
    IF w = 0 THEN 0
    ELSE (IF (a % 2) = 1 /\ (b % 2) = 1 THEN 1 ELSE 0)
         + 2 * bitand(a \div 2, b \div 2, w - 1)

wrapping_neg(x) == (U8Mod - x) % U8Mod

\* subtle: u8::ct_eq.  x = a ^ b; y = (x | x.wrapping_neg()) >> 7; y ^ 1
u8_ct_eq(a, b) ==
    LET x == bitxor(a, b, U8Bits)
        y == bitor(x, wrapping_neg(x), U8Bits) \div (2 ^ (U8Bits - 1))
    IN  bitxor(y, 1, U8Bits)

\* subtle: <[u8] as ConstantTimeEq>::ct_eq.  A length mismatch yields
\* Choice(0) at once; otherwise every position is visited and the per-byte
\* results are and-accumulated.  "examined" is the set of positions read.
RECURSIVE ct_loop(_, _, _, _, _)
ct_loop(a, b, i, x, seen) ==
    IF i > Len(a) THEN [choice |-> x, examined |-> seen]
    ELSE ct_loop(a, b, i + 1, bitand(x, u8_ct_eq(a[i], b[i]), U8Bits),
                 seen \cup {i})

slice_ct_eq(a, b) ==
    IF Len(a) # Len(b) THEN [choice |-> 0, examined |-> {}]
    ELSE ct_loop(a, b, 1, 1, {})

\* A short-circuiting byte-by-byte comparison (derived PartialEq on bytes):
\* it stops at the first differing position.
RECURSIVE raw_loop(_, _, _, _)
raw_loop(a, b, i, seen) ==
    IF i > Len(a) THEN [choice |-> 1, examined |-> seen]
    ELSE IF a[i] # b[i] THEN [choice |-> 0, examined |-> seen \cup {i}]
    ELSE raw_loop(a, b, i + 1, seen \cup {i})

raw_eq(a, b) ==
    IF Len(a) # Len(b) THEN [choice |-> 0, examined |-> {}]
    ELSE raw_loop(a, b, 1, {})

\* ------------------------------------------- the algorithm (collaborator)
\* KeyInit::new: the keyed initial accumulator, kept for Reset.
KeyInit_new(k) ==
    LET s == [i \in 1..OutputSize |->
                 (k[((i - 1) % Len(k)) + 1] + 7 * i) % U8Mod]
    IN  [init |-> s, acc |-> s]

absorb(acc, b) ==
    [i \in 1..OutputSize |->
        (5 * acc[i] + acc[(i % OutputSize) + 1] + b + i) % U8Mod]

RECURSIVE absorb_all(_, _)
absorb_all(acc, data) ==
    IF data = <<>> THEN acc
    ELSE absorb_all(absorb(acc, Head(data)), Tail(data))

\* Update::update
Update_update(m, data) == [m EXCEPT !.acc = absorb_all(m.acc, data)]

\* FixedOutput::finalize_fixed
finalize_fixed(m) ==
    [i \in 1..OutputSize |->
        (m.acc[i] + 3 * m.acc[((i + OutputSize - 2) % OutputSize) + 1]) % U8Mod]

\* Reset::reset
Reset_reset(m) == [m EXCEPT !.acc = m.init]

\* FixedOutputReset::finalize_fixed_reset
finalize_fixed_reset(m) == [out |-> finalize_fixed(m), mac |-> Reset_reset(m)]

\* ------------------------------------------------------------- CtOutput
\* CtOutput::new
CtOutput_new(bytes) == [bytes |-> bytes]

\* CtOutput::into_bytes
into_bytes(c) == c.bytes

\* From<Output<T>> for CtOutput<T>
CtOutput_from(bytes) == [bytes |-> bytes]

\* A conversion that drops the given bytes and wraps a default (zeroed) output.
CtOutput_from_ref_default(bytes) == CtOutput_from([i \in 1..Len(bytes) |-> 0])

\* From<&Output<T>> for CtOutput<T>: bytes.clone().into()
CtOutput_from_ref(bytes) == CtOutput_from(bytes)

\* <CtOutput as ConstantTimeEq>::ct_eq: self.bytes.ct_eq(&other.bytes)
CtOutput_ct_eq(x, y) == slice_ct_eq(x.bytes, y.bytes)

\* An equality on the wrapped bytes that stops at the first difference.
CtOutput_eq_short_circuit(x, y) ==
    LET c == raw_eq(x.bytes, y.bytes)
    IN  [eq |-> c.choice = 1, examined |-> c.examined]

\* <CtOutput as PartialEq>::eq: self.ct_eq(x).unwrap_u8() == 1
CtOutput_eq(x, y) ==
    LET c == CtOutput_ct_eq(x, y)
    IN  [eq |-> c.choice = 1, examined |-> c.examined]

\* --------------------------------------------------------- slicing, usize
\* a[..n]: panics when n exceeds the length.
SliceTo(a, n) ==
    IF n < 0 \/ n > Len(a) THEN [ok |-> FALSE, val |-> <<>>]
    ELSE [ok |-> TRUE, val |-> SubSeq(a, 1, n)]

\* a[m..]: panics when m exceeds the length.  A negative m stands for a usize
\* subtraction that underflowed: it panics in a debug build and wraps to a
\* value above any array length in a release build, where the slice panics.
SliceFrom(a, m) ==
    IF m < 0 \/ m > Len(a) THEN [ok |-> FALSE, val |-> <<>>]
    ELSE [ok |-> TRUE, val |-> SubSeq(a, m + 1, Len(a))]

\* ------------------------------------------------------ impl Mac for T
\* Mac::new
new(k) == KeyInit_new(k)

\* Mac::update
update(m, data) == Update_update(m, data)

\* Mac::finalize
finalize(m) == CtOutput_new(finalize_fixed(m))

\* Mac::finalize_reset
finalize_reset(m) ==
    LET r == finalize_fixed_reset(m)
    IN  [out |-> CtOutput_new(r.out), mac |-> r.mac]

\* A reset that does not delegate to Reset::reset.
reset_noop(m) == m

\* Mac::reset
reset(m) == Reset_reset(m)

\* What one call of a convenience method did: its verdict, whether it
\* produced the tag (finalized, computed), which equality compared the bytes
\* (via), the positions that equality read (examined), the left operand of
\* the comparison (lhs) and the slice bounds n and m.
NoTrace ==
    [verdict |-> "none", finalized |-> FALSE, computed |-> <<>>,
     via |-> "none", examined |-> {}, lhs |-> <<>>, n |-> 0, m |-> 0]

EarlyErr(n) == [NoTrace EXCEPT !.verdict = "MacError", !.n = n]

Panicked(t, n, m) ==
    [NoTrace EXCEPT !.verdict = "panic", !.finalized = TRUE, !.computed = t,
                    !.n = n, !.m = m]

Compared(t, lhs, n, m, via, eq, examined) ==
    [verdict |-> IF eq THEN "Ok" ELSE "MacError", finalized |-> TRUE,
     computed |-> t, via |-> via, examined |-> examined, lhs |-> lhs,
     n |-> n, m |-> m]

\* Mac::verify
verify(mc, tag) ==
    LET out == finalize(mc)
        r   == CtOutput_eq(out, CtOutput_from_ref(tag))
    IN  Compared(into_bytes(out), into_bytes(out), Len(tag), 0, "CtOutput",
                 r.eq, r.examined)

\* if n != Self::OutputSize::USIZE
SliceLenInvalid(n) == n # OutputSize

\* A length check that lets the empty slice through.
LeftLenInvalid_no_empty_check(n) == n > OutputSize

\* if n == 0 || n > Self::OutputSize::USIZE   (verify_truncated_left)
LeftLenInvalid(n) == n = 0 \/ n > OutputSize

\* A length check that lets slices longer than the tag through.
RightLenInvalid_no_upper_check(n) == n = 0

\* if n == 0 || n > Self::OutputSize::USIZE   (verify_truncated_right)
RightLenInvalid(n) == n = 0 \/ n > OutputSize

\* A verify_truncated_left that compares the right side of the tag.
verify_truncated_left_suffix(mc, tag) ==
    LET n == Len(tag)
    IN  IF LeftLenInvalid(n) THEN EarlyErr(n)
        ELSE LET t   == finalize_fixed(mc)
                 lhs == SliceFrom(t, OutputSize - n)
             IN  IF ~lhs.ok THEN Panicked(t, n, 0)
                 ELSE LET c == slice_ct_eq(lhs.val, tag)
                      IN  Compared(t, lhs.val, n, 0, "ct_eq", c.choice = 1,
                                   c.examined)

\* Mac::verify_truncated_left
verify_truncated_left(mc, tag) ==
    LET n == Len(tag)
    IN  IF LeftLenInvalid(n) THEN EarlyErr(n)
        ELSE LET t   == finalize_fixed(mc)
                 lhs == SliceTo(t, n)
             IN  IF ~lhs.ok THEN Panicked(t, n, 0)
                 ELSE LET c == slice_ct_eq(lhs.val, tag)
                      IN  Compared(t, lhs.val, n, 0, "ct_eq", c.choice = 1,
                                   c.examined)

\* A verify_slice that accepts a prefix: the body of verify_truncated_left.
verify_slice_as_prefix(mc, tag) == verify_truncated_left(mc, tag)

\* A verify_slice that produces the tag before looking at the length.
verify_slice_finalize_first(mc, tag) ==
    LET n == Len(tag)
        t == finalize_fixed(mc)
    IN  IF SliceLenInvalid(n) THEN [EarlyErr(n) EXCEPT !.finalized = TRUE,
                                                        !.computed = t]
        ELSE LET c == slice_ct_eq(t, tag)
             IN  Compared(t, t, n, 0, "ct_eq", c.choice = 1, c.examined)

\* Mac::verify_slice
verify_slice(mc, tag) ==
    LET n == Len(tag)
    IN  IF SliceLenInvalid(n) THEN EarlyErr(n)
        ELSE LET t == finalize_fixed(mc)
                 c == slice_ct_eq(t, tag)
             IN  Compared(t, t, n, 0, "ct_eq", c.choice = 1, c.examined)

\* A verify_truncated_right that slices tag[n..], as its doc comment words it.
verify_truncated_right_from_n(mc, tag) ==
    LET n == Len(tag)
    IN  IF RightLenInvalid(n) THEN EarlyErr(n)
        ELSE LET m   == n
                 t   == finalize_fixed(mc)
                 lhs == SliceFrom(t, m)
             IN  IF ~lhs.ok THEN Panicked(t, n, m)
                 ELSE LET c == slice_ct_eq(lhs.val, tag)
                      IN  Compared(t, lhs.val, n, m, "ct_eq", c.choice = 1,
                                   c.examined)

\* Mac::verify_truncated_right
verify_truncated_right(mc, tag) ==
    LET n == Len(tag)
    IN  IF RightLenInvalid(n) THEN EarlyErr(n)
        ELSE LET m   == OutputSize - n
                 t   == finalize_fixed(mc)
                 lhs == SliceFrom(t, m)
             IN  IF ~lhs.ok THEN Panicked(t, n, m)
                 ELSE LET c == slice_ct_eq(lhs.val, tag)
                      IN  Compared(t, lhs.val, n, m, "ct_eq", c.choice = 1,
                                   c.examined)

\* ------------------------------------------------------- receivers
\* A method taking `&mut self` leaves the caller's instance usable.
ByMutRef(s) == s

\* A by-value receiver that leaves the instance with the caller.
ByValue_borrowed(s) == s

\* A method taking `self` moves the instance: the caller cannot use it again.
ByValue(s) == "consumed"

\* ------------------------------------------------------------------ state
VARIABLES
    st,      \* "active" while the caller owns the instance, else "consumed"
    key,     \* the key the instance was constructed from
    mac,     \* the algorithm's state
    fed,     \* the data slices given to update since the instance was last
             \* in its post-construction state
    reused,  \* whether reset or finalize_reset has been called
    last     \* the last call: its name, its argument and what it did

vars == <<st, key, mac, fed, reused, last>>

Call(op, cand, msg, out, tr) ==
    [op |-> op, cand |-> cand, msg |-> msg, out |-> out, tr |-> tr]

RECURSIVE feed(_, _)
feed(m, chunks) ==
    IF chunks = <<>> THEN m
    ELSE feed(update(m, Head(chunks)), Tail(chunks))

\* The tag a freshly constructed instance with key k finalizes to after
\* being fed the given update calls.
FreshTag(k, chunks) == into_bytes(finalize(feed(new(k), chunks)))

\* ---------------------------------------------------- candidate tags
FlipBit(s, p, b) == [s EXCEPT ![p] = bitxor(s[p], 2 ^ b, U8Bits)]

Slices(T) == { SubSeq(T, i, j) : i \in 1..Len(T), j \in 0..Len(T) }

Flips(T) ==
    UNION { { FlipBit(s, p, b) : p \in 1..Len(s), b \in 0..(U8Bits - 1) }
            : s \in Slices(T) }

Extended(T) ==
    { T \o <<b>> : b \in SampleBytes } \cup { <<b>> \o T : b \in SampleBytes }

Arbitrary == UNION { [1..k -> SampleBytes] : k \in 0..(OutputSize + 1) }

\* Byte slices a caller may present: the true tag T, its sub-slices, each of
\* them with one bit flipped, T with a byte before or after, and slices
\* unrelated to T of every length up to OutputSize + 1.
Cands(T) == Slices(T) \cup Flips(T) \cup Extended(T) \cup Arbitrary

\* &Output<Self>: an array of exactly OutputSize bytes.
FullCands(T) == { c \in Cands(T) : Len(c) = OutputSize }

\* ---------------------------------------------------------------- actions
Init ==
    /\ st = "active"
    /\ key \in Keys
    /\ mac = new(key)
    /\ fed = <<>>
    /\ reused = FALSE
    /\ last = Call("new", <<>>, <<>>, <<>>, NoTrace)

Update ==
    /\ st = "active"
    /\ Len(fed) < MaxUpdates
    /\ \E data \in Chunks :
          /\ mac' = update(mac, data)
          /\ fed' = Append(fed, data)
    /\ st' = ByMutRef(st)
    /\ last' = Call("update", <<>>, <<>>, <<>>, NoTrace)
    /\ UNCHANGED <<key, reused>>

Reset ==
    /\ st = "active"
    /\ mac' = reset(mac)
    /\ fed' = <<>>
    /\ reused' = TRUE
    /\ st' = ByMutRef(st)
    /\ last' = Call("reset", <<>>, fed, <<>>, NoTrace)
    /\ UNCHANGED key

FinalizeReset ==
    /\ st = "active"
    /\ LET r == finalize_reset(mac)
       IN  /\ mac' = r.mac
           /\ last' = Call("finalize_reset", <<>>, fed, into_bytes(r.out),
                           [NoTrace EXCEPT !.finalized = TRUE,
                                           !.computed = into_bytes(r.out)])
    /\ fed' = <<>>
    /\ reused' = TRUE
    /\ st' = ByMutRef(st)
    /\ UNCHANGED key

Finalize ==
    /\ st = "active"
    /\ LET out == finalize(mac)
       IN  last' = Call("finalize", <<>>, fed, into_bytes(out),
                        [NoTrace EXCEPT !.finalized = TRUE,
                                        !.computed = into_bytes(out)])
    /\ st' = ByValue(st)
    /\ UNCHANGED <<key, mac, fed, reused>>

Verify ==
    /\ st = "active"
    /\ \E tag \in FullCands(FreshTag(key, fed)) :
          last' = Call("verify", tag, fed, <<>>, verify(mac, tag))
    /\ st' = ByValue(st)
    /\ UNCHANGED <<key, mac, fed, reused>>

VerifySlice ==
    /\ st = "active"
    /\ \E tag \in Cands(FreshTag(key, fed)) :
          last' = Call("verify_slice", tag, fed, <<>>, verify_slice(mac, tag))
    /\ st' = ByValue(st)
    /\ UNCHANGED <<key, mac, fed, reused>>

VerifyTruncatedLeft ==
    /\ st = "active"
    /\ \E tag \in Cands(FreshTag(key, fed)) :
          last' = Call("verify_truncated_left", tag, fed, <<>>,
                       verify_truncated_left(mac, tag))
    /\ st' = ByValue(st)
    /\ UNCHANGED <<key, mac, fed, reused>>

VerifyTruncatedRight ==
    /\ st = "active"
    /\ \E tag \in Cands(FreshTag(key, fed)) :
          last' = Call("verify_truncated_right", tag, fed, <<>>,
                       verify_truncated_right(mac, tag))
    /\ st' = ByValue(st)
    /\ UNCHANGED <<key, mac, fed, reused>>

Next ==
    \/ Update
    \/ Reset
    \/ FinalizeReset
    \/ Finalize
    \/ Verify
    \/ VerifySlice
    \/ VerifyTruncatedLeft
    \/ VerifyTruncatedRight

Spec == Init /\ [][Next]_vars

\* ------------------------------------------------------------ properties
VerifyOps ==
    { "verify", "verify_slice", "verify_truncated_left",
      "verify_truncated_right" }

TruncatedOps == { "verify_truncated_left", "verify_truncated_right" }

\* The tag of the absorbed message: what finalize yields on a fresh
\* instance with the same key fed the same update calls.
TrueTag == FreshTag(key, fed)

CandLen == Len(last.cand)

\* C1: verify(candidate) returns Ok exactly when the candidate equals the
\* tag a fresh identical-key instance fed the same message finalizes to; in
\* particular the true tag verifies and any single-bit change of it fails.
C1_VerifyIffTrueTag ==
    last.op = "verify" =>
        /\ CandLen = OutputSize
        /\ last.tr.verdict \in { "Ok", "MacError" }
        /\ last.tr.verdict = "Ok" <=> last.cand = TrueTag

C1_Witness ==
    /\ last.op = "verify"
    /\ last.tr.verdict = "Ok"
    /\ Len(fed) = 2
    /\ fed[1] # <<>>

\* C2: verify_slice returns MacError whenever the expected slice's length
\* differs from OutputSize, also for a content-correct prefix of the true
\* tag or a slice that begins with it; at length OutputSize it returns Ok
\* exactly when every byte equals the computed tag.
C2_VerifySliceLength ==
    last.op = "verify_slice" =>
        /\ last.tr.verdict \in { "Ok", "MacError" }
        /\ CandLen # OutputSize => last.tr.verdict = "MacError"
        /\ CandLen = OutputSize =>
              (last.tr.verdict = "Ok" <=>
                  \A i \in 1..OutputSize : last.cand[i] = TrueTag[i])

C2_Witness ==
    /\ last.op = "verify_slice"
    /\ CandLen \in 1..(OutputSize - 1)
    /\ last.cand = SubSeq(TrueTag, 1, CandLen)
    /\ last.tr.verdict = "MacError"

\* C3: for 1 <= n <= OutputSize, verify_truncated_left on a candidate of
\* length n returns Ok exactly when the candidate equals the first n bytes
\* of the true tag; only those n bytes of the computed tag are compared.
C3_TruncatedLeft ==
    (last.op = "verify_truncated_left" /\ CandLen \in 1..OutputSize) =>
        /\ last.tr.verdict \in { "Ok", "MacError" }
        /\ last.tr.verdict = "Ok" <=> last.cand = SubSeq(TrueTag, 1, CandLen)
        /\ last.tr.lhs = SubSeq(last.tr.computed, 1, CandLen)

C3_Witness ==
    /\ last.op = "verify_truncated_left"
    /\ CandLen \in 1..(OutputSize - 1)
    /\ last.tr.verdict = "Ok"
    /\ fed # <<>>

C5_TruncatedBadLength ==
    (last.op \in TruncatedOps /\ (CandLen = 0 \/ CandLen > OutputSize)) =>
        last.tr.verdict = "MacError"

C5_Witness ==
    /\ last.op = "verify_truncated_left"
    /\ CandLen = OutputSize + 1
    /\ SubSeq(last.cand, 1, OutputSize) = TrueTag
    /\ last.tr.verdict = "MacError"

\* C6: reset and finalize_reset leave the instance in its post-construction
\* state, finalize_reset returns the tag of everything absorbed before it,
\* and a later finalize yields the tag of a fresh instance with the same key
\* fed the update calls made since.
C6_ResetRestoresInitial ==
    /\ last.op \in { "reset", "finalize_reset" } =>
          (mac = new(key) /\ st = "active")
    /\ last.op = "finalize_reset" => last.out = FreshTag(key, last.msg)
    /\ last.op = "finalize" => last.out = FreshTag(key, fed)

C6_Witness ==
    /\ last.op = "finalize"
    /\ reused
    /\ Len(fed) = 2
    /\ fed[2] # <<>>
    /\ last.out = FreshTag(key, fed)

C7_Step ==
    /\ st = "active"
    /\ st' \in { "active", "consumed" }
    /\ last'.op \in { "update", "reset", "finalize_reset" } => st' = "active"
    /\ last'.op \in VerifyOps \cup { "finalize" } => st' = "consumed"

\* C7: an instance is active or consumed; construction yields active;
\* update, reset and finalize_reset keep it active; finalize and the four
\* verify methods consume it, on success and on failure; nothing is ever
\* called on a consumed instance.
C7_Lifecycle == (st = "active") /\ [][C7_Step]_vars

C7_Witness ==
    /\ st = "consumed"
    /\ last.op = "verify_truncated_left"
    /\ last.tr.verdict = "MacError"
    /\ ~last.tr.finalized

\* Whether the method's own length check lets a candidate of length n pass.
LenAccepted(op, n) ==
    CASE op = "verify" -> TRUE
      [] op = "verify_slice" -> n = OutputSize
      [] OTHER -> n \in 1..OutputSize

\* C8 as stated: every verify method has produced the full tag before it
\* returns, also when it fails because of the candidate's length.
C8_Original_AlwaysFinalized ==
    last.op \in VerifyOps => last.tr.finalized

\* C8 amended: a verify method produces the full tag of the absorbed
\* message exactly when the candidate passes the method's length check
\* (always for verify); a candidate of a rejected length gets MacError
\* with no tag produced.  Only the comparison is truncated.
C8_FinalizedIffLengthAccepted ==
    last.op \in VerifyOps =>
        /\ last.tr.finalized <=> LenAccepted(last.op, CandLen)
        /\ last.tr.finalized =>
              (last.tr.computed = TrueTag /\ Len(last.tr.computed) = OutputSize)
        /\ ~last.tr.finalized =>
              (last.tr.verdict = "MacError" /\ last.tr.computed = <<>>)

C8_Witness ==
    /\ last.op = "verify_truncated_left"
    /\ CandLen = 1
    /\ last.tr.finalized
    /\ Len(last.tr.computed) = OutputSize
    /\ Len(last.tr.lhs) = 1

\* C9 as stated: every comparison of tag bytes, in all four verify methods,
\* goes through CtOutput's equality and reads all positions.
C9_Original_AllViaCtOutput ==
    (last.op \in VerifyOps /\ last.tr.via # "none") =>
        /\ last.tr.via = "CtOutput"
        /\ last.tr.examined = 1..CandLen

\* C9 amended: verify compares through CtOutput's equality; verify_slice,
\* verify_truncated_left and verify_truncated_right call the constant-time
\* ct_eq on the raw output (or its slice) directly, not through CtOutput.
\* In all four the comparison happens exactly when the length is accepted
\* and then reads every position 1..n of the candidate, whatever the bytes.
C9_ConstantTimePositions ==
    last.op \in VerifyOps =>
        /\ last.tr.via # "none" <=> LenAccepted(last.op, CandLen)
        /\ last.op = "verify" => last.tr.via = "CtOutput"
        /\ (last.op # "verify" /\ last.tr.via # "none") => last.tr.via = "ct_eq"
        /\ last.tr.via # "none" =>
              (last.tr.examined = 1..CandLen /\ Len(last.tr.lhs) = CandLen)
        /\ last.tr.via = "none" => last.tr.examined = {}

C9_Witness ==
    /\ last.op = "verify"
    /\ last.cand[1] # TrueTag[1]
    /\ last.tr.verdict = "MacError"
    /\ last.tr.examined = 1..OutputSize

\* C10: the truncated comparisons end in Ok or MacError, never in a panic;
\* when they slice the tag, 1 <= n <= OutputSize, both operands have length
\* n, and for the right variant m = OutputSize - n did not underflow and
\* 0 <= m < OutputSize.
C10_SliceInBounds ==
    last.op \in TruncatedOps =>
        /\ last.tr.verdict \in { "Ok", "MacError" }
        /\ last.tr.finalized =>
              /\ last.tr.n \in 1..OutputSize
              /\ last.tr.n = CandLen
              /\ Len(last.tr.lhs) = last.tr.n
              /\ last.op = "verify_truncated_right" =>
                    (last.tr.m = OutputSize - last.tr.n
                     /\ last.tr.m \in 0..(OutputSize - 1))

C10_Witness ==
    /\ last.op = "verify_truncated_right"
    /\ CandLen > OutputSize
    /\ SubSeq(last.cand, CandLen - OutputSize + 1, CandLen) = TrueTag
    /\ last.tr.verdict = "MacError"

====
